---------------------------- MODULE Spec2Model ----------------------------
(***************************************************************************)
(* A model of the plagiarism checker's analysis service                    *)
(* (src/services/geminiService.ts): the pair generator and the aggregation *)
(* of concurrent provider calls in checkPlagiarism, the JSON extraction of *)
(* extractJsonFromText, and the normalisation of an online response in     *)
(* analyzeContentOnline; of the App component that runs it (src/App.tsx,   *)
(* src/components/FileUpload.tsx); and of the average that ResultsDisplay  *)
(* shows (src/unnamed/part_001).                                           *)
(*                                                                         *)
(* Texts are sequences of one-character strings.  JSON values are tagged   *)
(* records [t |-> <typeof>, v |-> <payload>], so that values of different  *)
(* JavaScript types can be compared.                                       *)
(***************************************************************************)
EXTENDS Integers, Sequences, FiniteSets, TLC

(***************************************************************************)
(* Bounds of the model.                                                    *)
(***************************************************************************)
MaxDocs == 3
MaxBody == 4
MaxSentences == 3
MaxChunks == 3
MaxResults == 3
MaxFiles == 2

(***************************************************************************)
(* Characters and texts.                                                   *)
(***************************************************************************)
IsWs(c) == c \in {" ", "\n", "\t", "\r"}

DigitChars == <<"0", "1", "2", "3", "4", "5", "6", "7", "8", "9">>

IsDigit(c) == \E d \in 1..10 : DigitChars[d] = c

DigitVal(c) == (CHOOSE d \in 1..10 : DigitChars[d] = c) - 1

Slice(t, a, b) == [k \in 1..(b - a + 1) |-> t[a + k - 1]]

StartsWithAt(t, p, w) ==
    /\ p >= 1
    /\ p + Len(w) - 1 <= Len(t)
    /\ \A k \in 1..Len(w) : t[p + k - 1] = w[k]

RECURSIVE SkipWs(_, _)
SkipWs(t, p) ==
    IF p <= Len(t) /\ IsWs(t[p]) THEN SkipWs(t, p + 1) ELSE p

\* String.prototype.trim: the text without its leading and trailing whitespace.
RECURSIVE TrimEnd(_)
TrimEnd(t) ==
    IF t # <<>> /\ IsWs(t[Len(t)]) THEN TrimEnd(SubSeq(t, 1, Len(t) - 1)) ELSE t

Trim(t) ==
    LET a == SkipWs(t, 1) IN
    IF a > Len(t) THEN <<>> ELSE TrimEnd(Slice(t, a, Len(t)))

(***************************************************************************)
(* JavaScript values.                                                      *)
(***************************************************************************)
JUndefined == [t |-> "undefined"]
JNull == [t |-> "null"]
JBool(b) == [t |-> "boolean", v |-> b]
JNum(n) == [t |-> "number", v |-> n]
JStr(s) == [t |-> "string", v |-> s]
JArr(items) == [t |-> "array", v |-> items]
JObj(members) == [t |-> "object", v |-> members]

\* typeof x === 'number', typeof x === 'string', Array.isArray(x)
IsNumber(x) == x.t = "number"
IsString(x) == x.t = "string"
IsArray(x) == x.t = "array"

\* JavaScript truthiness of a value.
Truthy(x) ==
    CASE x.t = "undefined" -> FALSE
      [] x.t = "null" -> FALSE
      [] x.t = "boolean" -> x.v
      [] x.t = "number" -> x.v # 0
      [] x.t = "string" -> x.v # <<>>
      [] OTHER -> TRUE

\* An object's members are kept in insertion order; a repeated key keeps its
\* place and takes the later value.
PutMember(members, key, val) ==
    IF \E i \in 1..Len(members) : members[i].k = key
    THEN [i \in 1..Len(members) |->
             IF members[i].k = key THEN [k |-> key, v |-> val] ELSE members[i]]
    ELSE Append(members, [k |-> key, v |-> val])

\* x.key where x is neither null nor undefined (those throw a TypeError): an
\* object's own member, undefined for a missing member and for the keys the
\* service reads on a number, string, boolean or array.
GetProp(x, key) ==
    IF x.t = "object" /\ \E i \in 1..Len(x.v) : x.v[i].k = key
    THEN x.v[CHOOSE i \in 1..Len(x.v) : x.v[i].k = key].v
    ELSE JUndefined

\* Whether reading a property of x throws.
PropThrows(x) == x.t \in {"null", "undefined"}

(***************************************************************************)
(* JSON.parse, as a recursive-descent parser over texts.  Numbers are      *)
(* integers; a string has no raw control character.  A result is          *)
(* [ok, val, pos]: pos is the index after the value.                       *)
(***************************************************************************)
ParseFail == [ok |-> FALSE, val |-> JNull, pos |-> 0]

ParseOk(val, pos) == [ok |-> TRUE, val |-> val, pos |-> pos]

Least(S) == CHOOSE x \in S : \A y \in S : x <= y

\* The characters of a string literal from p (after the opening quote) up to
\* the closing quote: no raw control character among them.  (The texts of the
\* model hold no backslash, so no escape sequence is read.)
ParseChars(t, p) ==
    LET quotes == {q \in p..Len(t) : t[q] = "\""} IN
    IF quotes = {} THEN ParseFail
    ELSE LET q == Least(quotes) IN
         IF \E r \in p..(q - 1) : t[r] \in {"\n", "\t", "\r", "\\"}
         THEN ParseFail
         ELSE ParseOk(JStr(Slice(t, p, q - 1)), q + 1)

RECURSIVE ParseDigits(_, _, _)
ParseDigits(t, p, acc) ==
    IF p <= Len(t) /\ IsDigit(t[p])
    THEN ParseDigits(t, p + 1, acc * 10 + DigitVal(t[p]))
    ELSE ParseOk(JNum(acc), p)

\* -?(0|[1-9][0-9]*)
ParseNumber(t, p) ==
    LET neg == p <= Len(t) /\ t[p] = "-"
        q == IF neg THEN p + 1 ELSE p
        r == IF q > Len(t) \/ ~IsDigit(t[q]) THEN ParseFail
             ELSE IF t[q] = "0" THEN ParseOk(JNum(0), q + 1)
             ELSE ParseDigits(t, q, 0)
    IN IF r.ok /\ neg THEN ParseOk(JNum(0 - r.val.v), r.pos) ELSE r

RECURSIVE ParseValue(_, _)
RECURSIVE ParseElements(_, _, _)
RECURSIVE ParseMembers(_, _, _)

\* A value at p, with no whitespace before it.
ParseValue(t, p) ==
    IF p > Len(t) THEN ParseFail
    ELSE IF t[p] = "{" THEN
        LET q == SkipWs(t, p + 1) IN
        IF q <= Len(t) /\ t[q] = "}" THEN ParseOk(JObj(<<>>), q + 1)
        ELSE ParseMembers(t, q, <<>>)
    ELSE IF t[p] = "[" THEN
        LET q == SkipWs(t, p + 1) IN
        IF q <= Len(t) /\ t[q] = "]" THEN ParseOk(JArr(<<>>), q + 1)
        ELSE ParseElements(t, q, <<>>)
    ELSE IF t[p] = "\"" THEN ParseChars(t, p + 1)
    ELSE IF StartsWithAt(t, p, <<"n", "u", "l", "l">>) THEN ParseOk(JNull, p + 4)
    ELSE IF StartsWithAt(t, p, <<"t", "r", "u", "e">>) THEN ParseOk(JBool(TRUE), p + 4)
    ELSE IF StartsWithAt(t, p, <<"f", "a", "l", "s", "e">>) THEN ParseOk(JBool(FALSE), p + 5)
    ELSE ParseNumber(t, p)

\* The elements of an array from p on (an element starts at p), up to its ].
ParseElements(t, p, acc) ==
    LET e == ParseValue(t, p) IN
    IF ~e.ok THEN ParseFail
    ELSE LET q == SkipWs(t, e.pos) IN
         IF q > Len(t) THEN ParseFail
         ELSE IF t[q] = "]" THEN ParseOk(JArr(Append(acc, e.val)), q + 1)
         ELSE IF t[q] = "," THEN ParseElements(t, SkipWs(t, q + 1), Append(acc, e.val))
         ELSE ParseFail

\* The members of an object from p on (a key starts at p), up to its }.
ParseMembers(t, p, acc) ==
    IF p > Len(t) \/ t[p] # "\"" THEN ParseFail
    ELSE LET key == ParseChars(t, p + 1) IN
         IF ~key.ok THEN ParseFail
         ELSE LET c == SkipWs(t, key.pos) IN
              IF c > Len(t) \/ t[c] # ":" THEN ParseFail
              ELSE LET e == ParseValue(t, SkipWs(t, c + 1)) IN
                   IF ~e.ok THEN ParseFail
                   ELSE LET q == SkipWs(t, e.pos)
                            members == PutMember(acc, key.val.v, e.val)
                        IN IF q > Len(t) THEN ParseFail
                           ELSE IF t[q] = "}" THEN ParseOk(JObj(members), q + 1)
                           ELSE IF t[q] = ","
                                THEN ParseMembers(t, SkipWs(t, q + 1), members)
                                ELSE ParseFail

\* JSON.parse(t): the value, or a SyntaxError (ok = FALSE).
JSONParse(t) ==
    LET r == ParseValue(t, SkipWs(t, 1)) IN
    IF r.ok /\ SkipWs(t, r.pos) = Len(t) + 1
    THEN [ok |-> TRUE, val |-> r.val]
    ELSE [ok |-> FALSE, val |-> JNull]


(***************************************************************************)
(* extractJsonFromText: the regular expression                             *)
(*     /```json\s*([\s\S]*?)\s*```|({[\s\S]*})/                            *)
(* matched as String.prototype.match does: at the leftmost position where  *)
(* one of the two alternatives matches.                                    *)
(***************************************************************************)
\* The backtick character, which a TLA+ string literal cannot hold.
Tick == "BACKTICK"

Ticks == <<Tick, Tick, Tick>>

FenceOpen == Ticks \o <<"j", "s", "o", "n">>

\* ([\s\S]*?)\s*``` from position a: the lazy group grows one character at a
\* time until the rest is whitespace followed by the closing ticks.  The
\* result is the index after the group, 0 when there is none.
LazyGroupEnd(t, a) ==
    LET ends == {e \in a..(Len(t) + 1) : StartsWithAt(t, SkipWs(t, e), Ticks)} IN
    IF ends = {} THEN 0 ELSE Least(ends)

\* The greedy \s* after ```json ends at a, and gives characters back down to
\* lo when the rest does not match.
RECURSIVE FenceFrom(_, _, _)
FenceFrom(t, lo, a) ==
    LET e == LazyGroupEnd(t, a) IN
    IF e # 0 THEN [found |-> TRUE, g |-> Slice(t, a, e - 1)]
    ELSE IF a > lo THEN FenceFrom(t, lo, a - 1)
    ELSE [found |-> FALSE, g |-> <<>>]

\* The first alternative at position p: group 1.
MatchFenceAt(t, p) ==
    IF StartsWithAt(t, p, FenceOpen)
    THEN FenceFrom(t, p + Len(FenceOpen), SkipWs(t, p + Len(FenceOpen)))
    ELSE [found |-> FALSE, g |-> <<>>]

\* The second alternative at position p: { then, greedily, everything up to
\* the last } of the text: group 2.
MatchBraceAt(t, p) ==
    IF p <= Len(t) /\ t[p] = "{" /\ \E q \in (p + 1)..Len(t) : t[q] = "}"
    THEN [found |-> TRUE,
          g |-> Slice(t, p, CHOOSE q \in (p + 1)..Len(t) :
                               /\ t[q] = "}"
                               /\ \A r \in (q + 1)..Len(t) : t[r] # "}")]
    ELSE [found |-> FALSE, g |-> <<>>]

NoMatch == [found |-> FALSE, alt |-> 0, g |-> <<>>]

\* The alternation tried at p: the fence first, then the brace.
MatchAt(t, p) ==
    LET f == MatchFenceAt(t, p)
        b == MatchBraceAt(t, p)
    IN IF f.found THEN [found |-> TRUE, alt |-> 1, g |-> f.g]
       ELSE IF b.found THEN [found |-> TRUE, alt |-> 2, g |-> b.g]
       ELSE NoMatch

\* text.match(jsonRegex): the match at the leftmost position that has one.
RegexMatch(t) ==
    LET starts == {p \in 1..Len(t) : MatchAt(t, p).found} IN
    IF starts = {} THEN NoMatch ELSE MatchAt(t, Least(starts))

\* A character is removed when it is the comma of a match or the whitespace
\* of one: a comma stands before it with only whitespace between, and the
\* first character that is not whitespace after it is a bracket.
RemovedAt(s, i) ==
    /\ s[i] = "," \/ IsWs(s[i])
    /\ SkipWs(s, i + 1) <= Len(s)
    /\ s[SkipWs(s, i + 1)] \in {"}", "]"}
    /\ \E p \in 1..i : s[p] = "," /\ \A r \in (p + 1)..i : IsWs(s[r])

StripTrailingCommas(s) ==
    LET indexed == [i \in 1..Len(s) |-> [at |-> i, c |-> s[i]]]
        Kept(x) == ~RemovedAt(s, x.at)
        kept == SelectSeq(indexed, Kept)
    IN [k \in 1..Len(kept) |-> kept[k].c]

MalformedJson == "API returned malformed JSON."

NonJsonResponse == "Received a non-JSON response from the API."

\* let jsonString = match[1] || match[2]: the group of the alternative that
\* matched; an empty group 1 is falsy and group 2 is then undefined.
Candidate(t) ==
    LET m == RegexMatch(t) IN
    IF m.found /\ m.g # <<>>
    THEN [some |-> TRUE, s |-> m.g]
    ELSE [some |-> FALSE, s |-> <<>>]

Thrown(msg) == [ok |-> FALSE, val |-> JNull, err |-> msg]

Returned(val) == [ok |-> TRUE, val |-> val, err |-> ""]

MutExtractMalformedWhenEmpty(t) ==
    LET c == Candidate(t)
        r == JSONParse(StripTrailingCommas(c.s))
    IN IF RegexMatch(t).found
       THEN IF r.ok THEN Returned(r.val) ELSE Thrown(MalformedJson)
       ELSE Thrown(NonJsonResponse)

extractJsonFromText(t) ==
    LET c == Candidate(t)
        r == JSONParse(StripTrailingCommas(c.s))
    IN IF c.some
       THEN IF r.ok THEN Returned(r.val) ELSE Thrown(MalformedJson)
       ELSE Thrown(NonJsonResponse)

(***************************************************************************)
(* Provider responses.  A response is what ai.models.generateContent       *)
(* settles with: it throws, or it resolves with a text (possibly absent)   *)
(* and, in search mode, the grounding chunks of its first candidate.       *)
(***************************************************************************)
ProviderError == <<"provider error">>

Throws == [throws |-> TRUE, hasText |-> FALSE, text |-> <<>>, chunks |-> <<>>]

TextResponse(t) == [throws |-> FALSE, hasText |-> TRUE, text |-> t, chunks |-> <<>>]

NoTextResponse == [throws |-> FALSE, hasText |-> FALSE, text |-> <<>>, chunks |-> <<>>]

GroundedResponse(t, chunks) ==
    [throws |-> FALSE, hasText |-> TRUE, text |-> t, chunks |-> chunks]

\* The outcome of an async function: it returns a value or throws an Error
\* with a message (a sequence of the message's parts).
Resolve(val) == [ok |-> TRUE, val |-> val, err |-> <<>>]

Reject(msg) == [ok |-> FALSE, val |-> JUndefined, err |-> msg]

KeySimilarity ==
    <<"s", "i", "m", "i", "l", "a", "r", "i", "t", "y">>

KeyMatchedSentences ==
    <<"m", "a", "t", "c", "h", "e", "d", "_", "s", "e", "n", "t", "e", "n",
      "c", "e", "s">>

KeySentence ==
    <<"s", "e", "n", "t", "e", "n", "c", "e">>

CouldNotParseSentence ==
    <<"[", "E", "r", "r", "o", "r", ":", " ", "C", "o", "u", "l", "d", " ",
      "n", "o", "t", " ", "p", "a", "r", "s", "e", " ", "s", "e", "n", "t",
      "e", "n", "c", "e", "]">>

Untitled ==
    <<"U", "n", "t", "i", "t", "l", "e", "d">>

(***************************************************************************)
(* analyzePair: the body after the provider call, inside its try/catch.    *)
(***************************************************************************)
AnalyzePairFailed(name1, name2) ==
    <<"Failed to analyze documents: ", name1, " and ", name2,
      ". The API returned an error.">>

\* response.text.trim() throws on an absent text, JSON.parse on a text that
\* is not JSON, parsed.similarity on null; every throw is caught and thrown
\* again as the one message.  The parsed fields are returned as they are.
analyzePair(name1, name2, resp) ==
    LET p == JSONParse(Trim(resp.text)) IN
    IF resp.throws \/ ~resp.hasText \/ ~p.ok \/ PropThrows(p.val)
    THEN Reject(AnalyzePairFailed(name1, name2))
    ELSE Resolve([file1 |-> name1, file2 |-> name2,
                  similarity |-> GetProp(p.val, KeySimilarity),
                  matched_sentences |-> GetProp(p.val, KeyMatchedSentences)])

(***************************************************************************)
(* analyzeContentOnline: the body after the provider call.                 *)
(***************************************************************************)
AnalyzeOnlineFailed(docName) ==
    <<"Failed to analyze document ", docName,
      " against online sources. The API returned an error.">>

UnexpectedFormat == "API returned JSON in an unexpected format."

\* rawSentences.map(item => ...)
MutNormalizeStringsOnly(item) ==
    IF IsString(item) THEN [sentence |-> item.v]
    ELSE [sentence |-> CouldNotParseSentence]

NormalizeSentence(item) ==
    IF IsString(item) THEN [sentence |-> item.v]
    ELSE IF Truthy(item) /\ IsString(GetProp(item, KeySentence))
         THEN [sentence |-> GetProp(item, KeySentence).v]
         ELSE [sentence |-> CouldNotParseSentence]

NormalizeSentences(raw) == [i \in 1..Len(raw) |-> NormalizeSentence(raw[i])]

\* chunk.web?.uri || '' and chunk.web?.title || 'Untitled'.  A chunk is
\* [web |-> <a JavaScript value>].
ChunkField(chunk, key) ==
    IF PropThrows(chunk.web) THEN JUndefined ELSE GetProp(chunk.web, key)

KeyUri == <<"u", "r", "i">>

KeyTitle == <<"t", "i", "t", "l", "e">>

\* a || b on strings: a when it is a non-empty string, else b.
OrElse(x, dflt) == IF Truthy(x) /\ IsString(x) THEN x.v ELSE dflt

ToSource(chunk) ==
    [uri |-> OrElse(ChunkField(chunk, KeyUri), <<>>),
     title |-> OrElse(ChunkField(chunk, KeyTitle), Untitled)]

\* groundingChunks.map(...).filter(source => source.uri)
RECURSIVE FilterUri(_)
FilterUri(sources) ==
    IF sources = <<>> THEN <<>>
    ELSE IF Head(sources).uri # <<>>
         THEN <<Head(sources)>> \o FilterUri(Tail(sources))
         ELSE FilterUri(Tail(sources))

Sources(chunks) == FilterUri([i \in 1..Len(chunks) |-> ToSource(chunks[i])])

\* new Map(sources.map(item => [item.uri, item])): the entries are set one
\* after the other; setting a key that is present keeps the key's place and
\* replaces its value.
RECURSIVE NewMap(_, _)
NewMap(entries, map) ==
    IF entries = <<>> THEN map
    ELSE NewMap(Tail(entries), PutMember(map, Head(entries).uri, Head(entries)))

\* Array.from(map.values())
MapValues(map) == [i \in 1..Len(map) |-> map[i].v]

\* A map that keeps the value a key was first set to.
RECURSIVE MutNewMapFirst(_, _)
MutNewMapFirst(entries, map) ==
    IF entries = <<>> THEN map
    ELSE MutNewMapFirst(Tail(entries),
             IF \E i \in 1..Len(map) : map[i].k = Head(entries).uri
             THEN map
             ELSE Append(map, [k |-> Head(entries).uri, v |-> Head(entries)]))

MutUniqueFirstWins(sources) == MapValues(MutNewMapFirst(sources, <<>>))

UniqueSources(sources) == MapValues(NewMap(sources, <<>>))

analyzeContentOnline(docName, resp) ==
    LET x == extractJsonFromText(resp.text)
        rawSentences == GetProp(x.val, KeyMatchedSentences)
    IN IF resp.throws \/ ~resp.hasText \/ ~x.ok \/ PropThrows(x.val)
          \/ ~IsNumber(GetProp(x.val, KeySimilarity)) \/ ~IsArray(rawSentences)
       THEN Reject(AnalyzeOnlineFailed(docName))
       ELSE Resolve([file1 |-> docName,
                     similarity |-> GetProp(x.val, KeySimilarity),
                     matched_sentences |-> NormalizeSentences(rawSentences.v),
                     sources |-> UniqueSources(Sources(resp.chunks))])

(***************************************************************************)
(* extractTextFromDoc: the body after the provider call.  A provider error *)
(* and an absent, empty or blank text end in the same catch, which puts    *)
(* the inner message after its own.                                        *)
(***************************************************************************)
NoTextExtracted(docName) ==
    <<"The API failed to extract any text from the file: ", docName,
      ". The file might be empty, password-protected, or in an unsupported format.">>

ExtractFailed(docName, inner) ==
    <<"Failed to extract text from file: ", docName, ". API Error: ">> \o inner

\* The text is returned without the test of line 72.
MutExtractAcceptsBlank(docName, resp) ==
    IF resp.throws THEN Reject(ExtractFailed(docName, ProviderError))
    ELSE IF ~resp.hasText
         THEN Reject(ExtractFailed(docName, NoTextExtracted(docName)))
         ELSE Resolve(resp.text)

extractTextFromDoc(docName, resp) ==
    IF resp.throws THEN Reject(ExtractFailed(docName, ProviderError))
    ELSE IF ~resp.hasText \/ resp.text = <<>> \/ Trim(resp.text) = <<>>
         THEN Reject(ExtractFailed(docName, NoTextExtracted(docName)))
         ELSE Resolve(resp.text)

(***************************************************************************)
(* checkPlagiarism: the work items.  A document is its name; the documents *)
(* of a run have distinct names.                                           *)
(***************************************************************************)
\* for (let i = 0; ...) for (let j = i + 1; ...) pairs.push(...), with the
\* indices of the code (documents[i] is docs[i + 1]).
RECURSIVE PairLoop(_, _, _, _)
PairLoop(docs, i, j, pairs) ==
    IF i >= Len(docs) THEN pairs
    ELSE IF j >= Len(docs) THEN PairLoop(docs, i + 1, i + 2, pairs)
    ELSE PairLoop(docs, i, j + 1, Append(pairs, <<docs[i + 1], docs[j + 1]>>))

\* The inner loop started at j = i.
RECURSIVE MutPairLoopFromI(_, _, _, _)
MutPairLoopFromI(docs, i, j, pairs) ==
    IF i >= Len(docs) THEN pairs
    ELSE IF j >= Len(docs) THEN MutPairLoopFromI(docs, i + 1, i + 1, pairs)
    ELSE MutPairLoopFromI(docs, i, j + 1, Append(pairs, <<docs[i + 1], docs[j + 1]>>))

MutPairsWithSelf(docs) == MutPairLoopFromI(docs, 0, 0, <<>>)

Pairs(docs) == PairLoop(docs, 0, 1, <<>>)

\* No early return, and the inner loop started at j = i.
MutPairwiseUnguarded(docs) == MutPairsWithSelf(docs)

\* if (documents.length < 2) return []; otherwise one item per pair.
PairwiseItems(docs) == IF Len(docs) < 2 THEN <<>> ELSE Pairs(docs)

\* if (documents.length < 1) return []; otherwise one item per document.
OnlineItems(docs) == [k \in 1..Len(docs) |-> <<docs[k]>>]

(***************************************************************************)
(* Promises.  A promise of a work item is extracting (online mode: the     *)
(* text extraction is in flight), analyzing (the comparison is in flight), *)
(* fulfilled or rejected.                                                  *)
(***************************************************************************)
Unsettled == Reject(<<>>)

PromiseIn(state) == [state |-> state, settled |-> Unsettled]

SettledWith(res) ==
    [state |-> IF res.ok THEN "fulfilled" ELSE "rejected", settled |-> res]

NotCalled == [state |-> "none", value |-> <<>>, reason |-> <<>>]

Pending == [state |-> "pending", value |-> <<>>, reason |-> <<>>]

Fulfilled(value) == [state |-> "fulfilled", value |-> value, reason |-> <<>>]

Rejected(reason) == [state |-> "rejected", value |-> <<>>, reason |-> reason]

\* The values in the order the promises settled.
MutGatherInSettleOrder(promises, order) ==
    [i \in 1..Len(promises) |-> promises[order[i]].settled.val]

\* Promise.all keeps each value at the index of its promise, whatever the
\* order the promises settled in.
Gather(promises, order) ==
    [i \in 1..Len(promises) |-> promises[i].settled.val]

\* A combinator that waits for every promise and keeps the fulfilled ones.
MutAllKeepsFulfilled(all, promises, order, k) ==
    IF all.state = "pending" /\ \A i \in 1..Len(promises) :
                                   promises[i].state \in {"fulfilled", "rejected"}
    THEN LET Ok(i) == promises[i].state = "fulfilled"
             kept == SelectSeq([i \in 1..Len(promises) |-> i], Ok)
         IN Fulfilled([i \in 1..Len(kept) |-> promises[kept[i]].settled.val])
    ELSE all

\* Promise.all(promises) after promise k has settled: a promise that is
\* settled stays as it is; a rejection rejects it with that reason; the last
\* fulfilment fulfils it with all the values.
PromiseAll(all, promises, order, k) ==
    IF all.state # "pending" THEN all
    ELSE IF promises[k].state = "rejected" THEN Rejected(promises[k].settled.err)
    ELSE IF \A i \in 1..Len(promises) : promises[i].state = "fulfilled"
         THEN Fulfilled(Gather(promises, order))
         ELSE all

(***************************************************************************)
(* State.                                                                  *)
(*   text, extracted       the argument and the outcome of one call of     *)
(*                         extractJsonFromText                             *)
(*   given, outcome        the response one call of analyzePair or of      *)
(*                         analyzeContentOnline receives, as the shapes it *)
(*                         is built from, and what the call settles with   *)
(*   op                    the exported function that was called last      *)
(*   documents, isOnlineCheck   its arguments                              *)
(*   workItems             the pairs, or the documents, it analyses        *)
(*   analysisPromises      the promise of each work item                   *)
(*   initiated             the provider calls it initiated before it       *)
(*                         returned its promise, in order                  *)
(*   settleOrder           the work items in the order they settled, up to *)
(*                         the settling of the returned promise            *)
(*   returned              the promise it returned                         *)
(*   onlineCalls           for each work item, whether analyzeContentOnline *)
(*                         was called for it, and with which textContent   *)
(*   view, results, isLoading, error   the state of the App component      *)
(*   run                   where the handler of the App that is running    *)
(*                         stands, and its arguments                       *)
(*   inFlight              the handler invocations that have not finished  *)
(*   rendered              what the App rendered last                      *)
(***************************************************************************)
VARIABLES text, extracted, given, outcome,
          op, documents, isOnlineCheck, workItems, analysisPromises,
          initiated, settleOrder, returned, onlineCalls,
          view, results, isLoading, error, run, inFlight, rendered

runVars ==
    <<op, documents, isOnlineCheck, workItems, analysisPromises, initiated,
      settleOrder, returned, onlineCalls>>

appVars == <<view, results, isLoading, error, run, inFlight, rendered>>

vars == <<text, extracted, given, outcome, runVars, appVars>>

extractVars == <<text, extracted>>

analyzeVars == <<given, outcome>>

NotExtracted ==
    [done |-> FALSE, candidate |-> [some |-> FALSE, s |-> <<>>],
     out |-> Thrown("")]

(***************************************************************************)
(* The response texts extractJsonFromText is applied to: every body of at  *)
(* most MaxBody characters of JSON punctuation, bare, fenced, and with     *)
(* prose, a second object or a second fenced block around it.              *)
(***************************************************************************)
BodyAlphabet == {"[", "]", "{", "}", ",", "\"", " ", "1"}

Fenced(b) == FenceOpen \o b \o Ticks

TextIn(c, b) ==
    CASE c = 1 -> b
      [] c = 2 -> Fenced(b)
      [] c = 3 -> <<"x">> \o FenceOpen \o <<"\n">> \o b \o <<"\n">> \o Ticks \o <<"x">>
      [] c = 4 -> <<"{", "}">> \o Fenced(b)
      [] c = 5 -> Fenced(b) \o <<"{", "}">>
      [] c = 6 -> <<"x", " ">> \o b \o <<" ", "x">>
      [] c = 7 -> b \o Fenced(<<"[", "]">>)
      [] OTHER -> b \o <<"x", "{", "}">>

NoCall ==
    [fn |-> "none", sim |-> "absent", ms |-> "absent", elems |-> <<>>,
     wrap |-> "bare", chunks |-> <<>>]

NoOutcome == [done |-> FALSE, res |-> Reject(<<>>)]

UPLOAD == "UPLOAD"

RESULTS == "RESULTS"

NoError == [set |-> FALSE, message |-> <<>>]

ErrorOf(message) == [set |-> TRUE, message |-> message]

\* A handler of the App is idle, reading (awaiting handleFileRead) or
\* checking (awaiting the service); took is the branch its last run left by:
\* "try", "catch", or "none" when it has not ended.
NoHandler == [stage |-> "idle", files |-> 0, isOnlineCheck |-> FALSE, took |-> "none"]

NothingRendered == [screen |-> "none"]

(***************************************************************************)
(* ResultsDisplay: the average similarity.  A quotient is kept as the      *)
(* fraction it is, [num, den]; NaN is the number that is not one.          *)
(***************************************************************************)
NaN == [t |-> "number", nan |-> TRUE]

IsNaN(x) == "nan" \in DOMAIN x

Quotient(num, den) == [t |-> "number", num |-> num, den |-> den]

\* acc + curr.similarity, acc a number: null counts as 0 and a boolean as 0
\* or 1; undefined gives NaN, and so does, after the division, the string
\* that acc + a string, an array or an object is, unless it reads as a number.
JsAdd(acc, x) ==
    IF IsNaN(acc) THEN NaN
    ELSE CASE x.t = "number" -> IF IsNaN(x) THEN NaN ELSE JNum(acc.v + x.v)
           [] x.t = "null" -> acc
           [] x.t = "boolean" -> JNum(acc.v + (IF x.v THEN 1 ELSE 0))
           [] OTHER -> NaN

\* results.reduce((acc, curr) => acc + curr.similarity, 0)
RECURSIVE Reduce(_, _)
Reduce(rs, acc) ==
    IF rs = <<>> THEN acc ELSE Reduce(Tail(rs), JsAdd(acc, Head(rs).similarity))

totalSimilarity(rs) == Reduce(rs, JNum(0))

JsDivide(x, n) == IF IsNaN(x) THEN NaN ELSE Quotient(x.v, n)

\* The total divided by the length, whatever the length.
MutAverageUnguarded(rs) == JsDivide(totalSimilarity(rs), Len(rs))

\* results.length > 0 ? (totalSimilarity / results.length) : 0
averageSimilarity(rs) ==
    IF Len(rs) > 0 THEN JsDivide(totalSimilarity(rs), Len(rs)) ELSE Quotient(0, 1)

\* What App renders: the loader while loading; otherwise the error, if any,
\* and the upload form or the results with their average.
Render(loading, err, v, rs) ==
    IF loading THEN [screen |-> "loader"]
    ELSE IF v = UPLOAD THEN [screen |-> "upload", error |-> err]
    ELSE [screen |-> "results", error |-> err, results |-> rs,
          averageSimilarity |-> averageSimilarity(rs)]

\* useState(AppView.UPLOAD), useState([]), useState(false), useState(null)
AppMounted ==
    /\ view = UPLOAD
    /\ results = <<>>
    /\ isLoading = FALSE
    /\ error = NoError
    /\ run = NoHandler
    /\ inFlight = 0

ServiceAtRest ==
    /\ op = "none"
    /\ documents = <<>>
    /\ isOnlineCheck = FALSE
    /\ workItems = <<>>
    /\ analysisPromises = <<>>
    /\ initiated = <<>>
    /\ settleOrder = <<>>
    /\ returned = NotCalled
    /\ onlineCalls = <<>>

NoRun ==
    /\ ServiceAtRest
    /\ AppMounted
    /\ rendered = Render(isLoading, error, view, results)

InitExtract ==
    /\ NoRun
    /\ given = NoCall
    /\ outcome = NoOutcome
    /\ \E n \in 0..MaxBody : \E b \in [1..n -> BodyAlphabet] :
           \E c \in 1..8 : text = TextIn(c, b)
    /\ extracted = NotExtracted

\* One call extractJsonFromText(text).
ExtractJson ==
    /\ ~extracted.done
    /\ extracted' = [done |-> TRUE, candidate |-> Candidate(text),
                     out |-> extractJsonFromText(text)]
    /\ UNCHANGED <<text, analyzeVars, runVars, appVars>>

NextExtract == ExtractJson

SpecExtract == InitExtract /\ [][NextExtract]_vars

(***************************************************************************)
(* The responses analyzePair and analyzeContentOnline are applied to.  A   *)
(* response is described by the shapes of its parts (given) and its text   *)
(* is written out from them, as the provider would.                        *)
(***************************************************************************)
SimShapes == {"absent", "n7", "n150", "neg5", "string", "null"}

NumberSimShapes == {"n7", "n150", "neg5"}

SimText(sh) ==
    CASE sh = "n7" -> <<"7">>
      [] sh = "n150" -> <<"1", "5", "0">>
      [] sh = "neg5" -> <<"-", "5">>
      [] sh = "string" -> <<"\"", "h", "i", "g", "h", "\"">>
      [] OTHER -> <<"n", "u", "l", "l">>

SimNumber(sh) ==
    CASE sh = "n7" -> 7
      [] sh = "n150" -> 150
      [] OTHER -> 0 - 5

\* The shapes of one element of matched_sentences.
ElemShapes ==
    {"plain", "empty", "wrapped", "wrappedEmpty", "other", "sentenceNumber",
     "null", "number", "list"}

ElemText(sh) ==
    CASE sh = "plain" -> <<"\"", "p", "l", "a", "i", "n", "\"">>
      [] sh = "empty" -> <<"\"", "\"">>
      [] sh = "wrapped" ->
             <<"{", "\"", "s", "e", "n", "t", "e", "n", "c", "e", "\"", ":",
               "\"", "w", "r", "a", "p", "p", "e", "d", "\"", "}">>
      [] sh = "wrappedEmpty" ->
             <<"{", "\"", "s", "e", "n", "t", "e", "n", "c", "e", "\"", ":",
               "\"", "\"", "}">>
      [] sh = "other" -> <<"{", "\"", "o", "t", "h", "e", "r", "\"", ":", "1", "}">>
      [] sh = "sentenceNumber" ->
             <<"{", "\"", "s", "e", "n", "t", "e", "n", "c", "e", "\"", ":",
               "1", "}">>
      [] sh = "null" -> <<"n", "u", "l", "l">>
      [] sh = "number" -> <<"2">>
      [] OTHER -> <<"[", "\"", "x", "\"", "]">>

\* What the element is to become: a bare string and the string sentence of
\* an object as they are, anything else the sentinel.
ElemExpected(sh) ==
    CASE sh = "plain" -> <<"p", "l", "a", "i", "n">>
      [] sh = "empty" -> <<>>
      [] sh = "wrapped" -> <<"w", "r", "a", "p", "p", "e", "d">>
      [] sh = "wrappedEmpty" -> <<>>
      [] OTHER -> CouldNotParseSentence

RECURSIVE JoinElems(_)
JoinElems(elems) ==
    IF elems = <<>> THEN <<>>
    ELSE IF Len(elems) = 1 THEN ElemText(elems[1])
    ELSE ElemText(elems[1]) \o <<",">> \o JoinElems(Tail(elems))

\* matched_sentences is a list of elements, absent, a string or an object.
MsShapes == {"list", "absent", "string", "object"}

MsText(g) ==
    CASE g.ms = "list" -> <<"[">> \o JoinElems(g.elems) \o <<"]">>
      [] g.ms = "string" -> <<"\"", "a", "\"">>
      [] OTHER -> <<"{", "}">>

Quoted(key) == <<"\"">> \o key \o <<"\"">>

ObjectText(g) ==
    LET sim == IF g.sim = "absent" THEN <<>>
               ELSE Quoted(KeySimilarity) \o <<":">> \o SimText(g.sim)
        ms == IF g.ms = "absent" THEN <<>>
              ELSE Quoted(KeyMatchedSentences) \o <<":", " ">> \o MsText(g)
        sep == IF sim # <<>> /\ ms # <<>> THEN <<",", " ">> ELSE <<>>
    IN <<"{">> \o sim \o sep \o ms \o <<"}">>

\* How the response carries the object: as its whole text, in a fenced
\* block after a line of prose, or not at all.
WrapShapes ==
    {"bare", "fenced", "prose", "cut", "jsonNull", "noText", "throws"}

ResponseText(g) ==
    CASE g.wrap = "bare" -> ObjectText(g)
      [] g.wrap = "fenced" ->
             <<"H", "e", "r", "e", ":", "\n">> \o FenceOpen \o <<"\n">>
                 \o ObjectText(g) \o <<"\n">> \o Ticks
      [] g.wrap = "prose" -> <<"S", "o", "r", "r", "y", ".">>
      [] g.wrap = "cut" -> SubSeq(ObjectText(g), 1, Len(ObjectText(g)) - 1)
      [] OTHER -> <<"n", "u", "l", "l">>

\* The shapes of a grounding chunk: whether it has a web part, and the uri
\* and the title of that part ("" for an empty string, "none" when absent).
ChunkShapes ==
    { [web |-> FALSE, uri |-> "none", title |-> "none"],
      [web |-> TRUE, uri |-> "a", title |-> "A1"],
      [web |-> TRUE, uri |-> "a", title |-> "A2"],
      [web |-> TRUE, uri |-> "a", title |-> "none"],
      [web |-> TRUE, uri |-> "b", title |-> "B"],
      [web |-> TRUE, uri |-> "", title |-> "X"],
      [web |-> TRUE, uri |-> "none", title |-> "A1"] }

NameText(n) ==
    CASE n = "a" -> <<"a">>
      [] n = "b" -> <<"b">>
      [] n = "A1" -> <<"A", "1">>
      [] n = "A2" -> <<"A", "2">>
      [] n = "B" -> <<"B">>
      [] n = "X" -> <<"X">>
      [] OTHER -> <<>>

FieldOf(key, n) ==
    IF n = "none" THEN <<>> ELSE <<[k |-> key, v |-> JStr(NameText(n))]>>

ChunkOf(sh) ==
    [web |-> IF sh.web
             THEN JObj(FieldOf(KeyUri, sh.uri) \o FieldOf(KeyTitle, sh.title))
             ELSE JUndefined]

ResponseOf(g) ==
    IF g.wrap = "throws" THEN Throws
    ELSE IF g.wrap = "noText" THEN NoTextResponse
    ELSE GroundedResponse(ResponseText(g), [i \in 1..Len(g.chunks) |-> ChunkOf(g.chunks[i])])

SeqsUpTo(S, n) == UNION {[1..k -> S] : k \in 0..n}

\* The calls: every shape of the two fields under every carrier, for both
\* functions; every list of elements; every list of grounding chunks.
InitAnalyze ==
    /\ NoRun
    /\ text = <<>>
    /\ extracted = NotExtracted
    /\ outcome = NoOutcome
    /\ \/ \E fn \in {"analyzePair", "analyzeContentOnline"}, sim \in SimShapes,
             ms \in MsShapes, wrap \in WrapShapes, elems \in SeqsUpTo(ElemShapes, 1) :
             /\ wrap = "fenced" => fn = "analyzeContentOnline"
             /\ ms # "list" => elems = <<>>
             /\ given = [fn |-> fn, sim |-> sim, ms |-> ms, elems |-> elems,
                         wrap |-> wrap, chunks |-> <<>>]
       \/ \E sim \in NumberSimShapes, wrap \in {"bare", "fenced"},
             elems \in SeqsUpTo(ElemShapes, MaxSentences) :
             given = [fn |-> "analyzeContentOnline", sim |-> sim, ms |-> "list",
                      elems |-> elems, wrap |-> wrap, chunks |-> <<>>]
       \/ \E chunks \in SeqsUpTo(ChunkShapes, MaxChunks) :
             given = [fn |-> "analyzeContentOnline", sim |-> "n7", ms |-> "list",
                      elems |-> <<"plain">>, wrap |-> "bare", chunks |-> chunks]

FileNames == <<"a.txt", "b.txt", "c.txt", "d.txt", "e.txt">>

FileA == FileNames[1]

FileB == FileNames[2]

\* analyzePair(doc1, doc2) settles.
AnalyzePair ==
    /\ given.fn = "analyzePair"
    /\ ~outcome.done
    /\ outcome' = [done |-> TRUE, res |-> analyzePair(FileA, FileB, ResponseOf(given))]
    /\ UNCHANGED <<given, extractVars, runVars, appVars>>

\* analyzeContentOnline(docName, textContent) settles.
AnalyzeContentOnline ==
    /\ given.fn = "analyzeContentOnline"
    /\ ~outcome.done
    /\ outcome' = [done |-> TRUE, res |-> analyzeContentOnline(FileA, ResponseOf(given))]
    /\ UNCHANGED <<given, extractVars, runVars, appVars>>

NextAnalyze == AnalyzePair \/ AnalyzeContentOnline

SpecAnalyze == InitAnalyze /\ [][NextAnalyze]_vars

(***************************************************************************)
(* The result sets ResultsDisplay is given: every list of at most          *)
(* MaxResults results whose similarities are numbers.                      *)
(***************************************************************************)
Similarities == {0, 10, 50, 90, 100}

ResultWith(n) ==
    [file1 |-> FileA, file2 |-> FileB, similarity |-> JNum(n),
     matched_sentences |-> JArr(<<>>)]

InitAverage ==
    /\ ServiceAtRest
    /\ text = <<>>
    /\ extracted = NotExtracted
    /\ given = NoCall
    /\ outcome = NoOutcome
    /\ view = RESULTS
    /\ isLoading = FALSE
    /\ error = NoError
    /\ run = NoHandler
    /\ inFlight = 0
    /\ rendered = NothingRendered
    /\ \E sims \in SeqsUpTo(Similarities, MaxResults) :
           results = [k \in 1..Len(sims) |-> ResultWith(sims[k])]

\* App renders ResultsDisplay with the results.
RenderResults ==
    /\ rendered = NothingRendered
    /\ rendered' = Render(isLoading, error, view, results)
    /\ UNCHANGED <<extractVars, analyzeVars, runVars, view, results, isLoading,
                   error, run, inFlight>>

NextAverage == RenderResults

SpecAverage == InitAverage /\ [][NextAverage]_vars

(***************************************************************************)
(* A run of the service: checkPlagiarism or checkPastedTextPlagiarism is   *)
(* called, its provider calls settle one at a time in any order, and the   *)
(* promise it returned settles.  The calls still in flight when that       *)
(* promise is rejected settle later, and change nothing but their own      *)
(* promise.                                                                *)
(***************************************************************************)
PastedText == "Pasted Text"

Shape(sim, ms, wrap, chunks) ==
    [fn |-> "any", sim |-> sim, ms |-> ms, elems |-> <<"plain">>, wrap |-> wrap,
     chunks |-> chunks]

\* What the provider answers a pair comparison: an error, the object asked
\* for, or an object without the two fields.
PairAnswers ==
    { Throws,
      ResponseOf(Shape("n7", "list", "bare", <<>>)),
      ResponseOf(Shape("absent", "absent", "bare", <<>>)) }

\* What the provider answers an online comparison: an error, the object in
\* a fenced block with citations, or the bare object.
OnlineAnswers ==
    { Throws,
      ResponseOf(Shape("n7", "list", "fenced",
                       << [web |-> TRUE, uri |-> "a", title |-> "A1"],
                          [web |-> TRUE, uri |-> "a", title |-> "A2"] >>)),
      ResponseOf(Shape("n150", "list", "bare", <<>>)) }

\* What the provider answers a text extraction: an error, no text, a blank
\* text, or a text.
Words == <<"w", "o", "r", "d", "s">>

ExtractAnswers ==
    { Throws, NoTextResponse, TextResponse(<<" ", "\n">>), TextResponse(Words) }

Init ==
    /\ NoRun
    /\ text = <<>>
    /\ extracted = NotExtracted
    /\ given = NoCall
    /\ outcome = NoOutcome

Idle == returned.state # "pending"

\* Only the call of the first work item is initiated before the function
\* returns.
MutInitiatedFirstOnly(items, online) ==
    [k \in 1..(IF items = <<>> THEN 0 ELSE 1) |->
        [call |-> IF online THEN "extractTextFromDoc" ELSE "analyzePair",
         item |-> k]]

\* documents.map(async (doc) => ...) and pairs.map(...) call the function of
\* every work item in turn; each runs up to its first await, that is up to
\* its provider call, before the next one starts.
InitiatedCalls(items, online) ==
    [k \in 1..Len(items) |->
        [call |-> IF online THEN "extractTextFromDoc" ELSE "analyzePair",
         item |-> k]]

NoOnlineCall == [called |-> FALSE, textContent |-> <<>>]

OnlineCall(textContent) == [called |-> TRUE, textContent |-> textContent]

\* checkPlagiarism(documents, isOnlineCheck) up to its return: the work
\* items, and one provider call initiated per work item, in order.
CheckPlagiarism(n, online) ==
    LET docs == SubSeq(FileNames, 1, n)
        items == IF online THEN OnlineItems(docs) ELSE PairwiseItems(docs)
    IN /\ Idle
       /\ op' = "checkPlagiarism"
       /\ documents' = docs
       /\ isOnlineCheck' = online
       /\ workItems' = items
       /\ analysisPromises' =
              [k \in 1..Len(items) |->
                  PromiseIn(IF online THEN "extracting" ELSE "analyzing")]
       /\ initiated' = InitiatedCalls(items, online)
       /\ onlineCalls' = [k \in 1..Len(items) |-> NoOnlineCall]
       /\ settleOrder' = <<>>
       /\ returned' = IF items = <<>> THEN Fulfilled(<<>>) ELSE Pending
       /\ UNCHANGED <<extractVars, analyzeVars>>

\* checkPastedTextPlagiarism(text): the promise of analyzeContentOnline.
CheckPastedTextPlagiarism(pasted) ==
    /\ Idle
    /\ op' = "checkPastedTextPlagiarism"
    /\ documents' = <<>>
    /\ isOnlineCheck' = TRUE
    /\ workItems' = <<<<PastedText>>>>
    /\ analysisPromises' = <<PromiseIn("analyzing")>>
    /\ initiated' = <<[call |-> "analyzeContentOnline", item |-> 1]>>
    /\ onlineCalls' = <<OnlineCall(pasted)>>
    /\ settleOrder' = <<>>
    /\ returned' = Pending
    /\ UNCHANGED <<extractVars, analyzeVars>>

\* Work item k has settled with res: its promise, and the returned one.
Settle(k, res) ==
    LET promises == [analysisPromises EXCEPT ![k] = SettledWith(res)]
        order == IF returned.state = "pending"
                 THEN Append(settleOrder, k) ELSE settleOrder
    IN /\ analysisPromises' = promises
       /\ settleOrder' = order
       /\ returned' =
              IF op = "checkPlagiarism"
              THEN PromiseAll(returned, promises, order, k)
              ELSE IF res.ok THEN Fulfilled(res.val) ELSE Rejected(res.err)
       /\ UNCHANGED <<op, documents, isOnlineCheck, workItems, initiated,
                      onlineCalls, extractVars, analyzeVars>>

\* The text extraction of document k settles: with a text, the online
\* comparison of the document is initiated; otherwise the work item fails.
ExtractTextSettles(k, resp) ==
    /\ k \in 1..Len(analysisPromises)
    /\ analysisPromises[k].state = "extracting"
    /\ LET x == extractTextFromDoc(workItems[k][1], resp) IN
       IF x.ok
       THEN /\ analysisPromises' = [analysisPromises EXCEPT ![k] = PromiseIn("analyzing")]
            /\ onlineCalls' = [onlineCalls EXCEPT ![k] = OnlineCall(x.val)]
            /\ UNCHANGED <<op, documents, isOnlineCheck, workItems, initiated,
                           settleOrder, returned, extractVars, analyzeVars>>
       ELSE Settle(k, x)

\* The comparison of pair k settles.
AnalyzePairSettles(k, resp) ==
    /\ k \in 1..Len(analysisPromises)
    /\ analysisPromises[k].state = "analyzing"
    /\ ~isOnlineCheck
    /\ Settle(k, analyzePair(workItems[k][1], workItems[k][2], resp))

\* The online comparison of document k, or of the pasted text, settles.
AnalyzeContentOnlineSettles(k, resp) ==
    /\ k \in 1..Len(analysisPromises)
    /\ analysisPromises[k].state = "analyzing"
    /\ isOnlineCheck
    /\ Settle(k, analyzeContentOnline(workItems[k][1], resp))

\* A step of the service: a call, or a provider call that settles.
ServiceCall ==
    \/ \E n \in 0..MaxDocs, online \in BOOLEAN : CheckPlagiarism(n, online)
    \/ CheckPastedTextPlagiarism(Words)

ProviderSettles ==
    \/ \E k \in 1..Len(analysisPromises), resp \in ExtractAnswers :
           ExtractTextSettles(k, resp)
    \/ \E k \in 1..Len(analysisPromises), resp \in PairAnswers :
           AnalyzePairSettles(k, resp)
    \/ \E k \in 1..Len(analysisPromises), resp \in OnlineAnswers :
           AnalyzeContentOnlineSettles(k, resp)

Next ==
    \/ ServiceCall /\ UNCHANGED appVars
    \/ ProviderSettles /\ UNCHANGED appVars

Spec == Init /\ [][Next]_vars

(***************************************************************************)
(* The App: the upload form starts a handler, the handler awaits the file  *)
(* reading and the service, and on their settling sets the state in one    *)
(* go; the results view can be reset.                                      *)
(***************************************************************************)
\* The form is rendered while no loader is shown.
MutFormRenderedWhileLoading(loading, v) == v = UPLOAD

\* isLoading ? <Loader /> : ... view === AppView.UPLOAD && <FileUpload ... />
FormRendered(loading, v) == ~loading /\ v = UPLOAD

\* isLoading ? <Loader /> : ... view === AppView.RESULTS && <ResultsDisplay ... />
ResultsRendered(loading, v) == ~loading /\ v = RESULTS

PleasePaste == <<"Please paste some text to analyze.">>

FileReadFailed(name) == <<"Error reading file: ", name>>

\* What the form holds in its text area: a text, blanks, nothing.
PastedTexts == {Words, <<" ", "\n">>, <<>>}

AppRenders == rendered' = Render(isLoading', error', view', results')

\* setIsLoading(true); setError(null); setResults([]);
RunStarts(stage, files, online) ==
    /\ isLoading' = TRUE
    /\ error' = NoError
    /\ results' = <<>>
    /\ view' = view
    /\ run' = [stage |-> stage, files |-> files, isOnlineCheck |-> online,
               took |-> "none"]
    /\ inFlight' = inFlight + 1

\* The catch block without a finally: isLoading is left as it is.
MutCatchKeepsLoading(message, loading) ==
    [error |-> ErrorOf(message), view |-> UPLOAD, isLoading |-> loading]

\* catch: setError(err.message); setView(AppView.UPLOAD); finally:
\* setIsLoading(false).  Every error the handlers await is an Error.
Caught(message, loading) ==
    [error |-> ErrorOf(message), view |-> UPLOAD, isLoading |-> FALSE]

RunFails(message) ==
    /\ error' = Caught(message, isLoading).error
    /\ view' = Caught(message, isLoading).view
    /\ isLoading' = Caught(message, isLoading).isLoading
    /\ results' = results
    /\ run' = [NoHandler EXCEPT !.took = "catch"]
    /\ inFlight' = inFlight - 1

\* setResults(plagiarismResults) or setResults([plagiarismResult]);
\* setView(AppView.RESULTS); finally: setIsLoading(false).
RunSucceeds(value) ==
    /\ results' = value
    /\ view' = RESULTS
    /\ isLoading' = FALSE
    /\ error' = error
    /\ run' = [NoHandler EXCEPT !.took = "try"]
    /\ inFlight' = inFlight - 1

\* The handler after the step of the service it awaits: it goes on waiting
\* while the returned promise is pending, and ends when it has settled.
AfterAwait ==
    /\ IF returned'.state = "fulfilled"
       THEN RunSucceeds(IF op' = "checkPlagiarism"
                        THEN returned'.value ELSE <<returned'.value>>)
       ELSE IF returned'.state = "rejected"
       THEN RunFails(returned'.reason)
       ELSE /\ run' = [run EXCEPT !.stage = "checking"]
            /\ UNCHANGED <<view, results, isLoading, error, inFlight>>
    /\ AppRenders

\* handleAnalysis(files, isOnlineCheck) up to await handleFileRead(files).
HandleAnalysis(files, online) ==
    /\ RunStarts("reading", files, online)
    /\ AppRenders
    /\ UNCHANGED <<extractVars, analyzeVars, runVars>>

\* handleTextAnalysis(text) up to await checkPastedTextPlagiarism(text).
HandleTextAnalysis(pasted) ==
    IF Trim(pasted) = <<>>
    THEN /\ error' = ErrorOf(PleasePaste)
         /\ UNCHANGED <<view, results, isLoading, run, inFlight, extractVars,
                        analyzeVars, runVars>>
         /\ AppRenders
    ELSE /\ RunStarts("checking", 0, TRUE)
         /\ CheckPastedTextPlagiarism(pasted)
         /\ AppRenders

\* FileUpload.handleSubmit in upload mode: the button is enabled, and the
\* handler is called, with at least one file.
SubmitFiles(files, online) ==
    /\ FormRendered(isLoading, view)
    /\ files > 0
    /\ HandleAnalysis(files, online)

\* FileUpload.handleSubmit in paste mode: the button is enabled, and the
\* handler is called, with a text that is not blank.
SubmitText(pasted) ==
    /\ FormRendered(isLoading, view)
    /\ Trim(pasted) # <<>>
    /\ HandleTextAnalysis(pasted)

\* handleFileRead resolves: checkPlagiarism is called with the documents.
FileReadResolves ==
    /\ run.stage = "reading"
    /\ CheckPlagiarism(run.files, run.isOnlineCheck)
    /\ AfterAwait

\* handleFileRead rejects with the error of file k.
FileReadRejects(k) ==
    /\ run.stage = "reading"
    /\ k \in 1..run.files
    /\ RunFails(FileReadFailed(FileNames[k]))
    /\ AppRenders
    /\ UNCHANGED <<extractVars, analyzeVars, runVars>>

\* A provider call settles: the handler that awaits the service goes on; a
\* call that settles after its run has ended changes nothing in the App.
ProviderSettlesInApp ==
    /\ ProviderSettles
    /\ IF run.stage = "checking" THEN AfterAwait ELSE UNCHANGED appVars

\* handleReset, from the results view.
HandleReset ==
    /\ ResultsRendered(isLoading, view)
    /\ view' = UPLOAD
    /\ results' = <<>>
    /\ error' = NoError
    /\ UNCHANGED <<isLoading, run, inFlight, extractVars, analyzeVars, runVars>>
    /\ AppRenders

NextApp ==
    \/ \E files \in 0..MaxFiles, online \in BOOLEAN : SubmitFiles(files, online)
    \/ \E pasted \in PastedTexts : SubmitText(pasted)
    \/ FileReadResolves
    \/ \E k \in 1..MaxFiles : FileReadRejects(k)
    \/ ProviderSettlesInApp
    \/ HandleReset

SpecApp == Init /\ [][NextApp]_vars

(***************************************************************************)
(* What a text contains, stated on the text itself.                        *)
(***************************************************************************)
\* A fenced JSON block starts at p: the opening fence, and closing ticks
\* somewhere after it.
FencedBlockAt(t, p) ==
    /\ StartsWithAt(t, p, FenceOpen)
    /\ \E q \in (p + Len(FenceOpen))..Len(t) : StartsWithAt(t, q, Ticks)

\* A {...} object starts at p: an opening brace, and a closing one after it.
BraceObjectAt(t, p) ==
    /\ p <= Len(t)
    /\ t[p] = "{"
    /\ \E q \in (p + 1)..Len(t) : t[q] = "}"

HasFencedBlock(t) == \E p \in 1..Len(t) : FencedBlockAt(t, p)

HasBraceObject(t) == \E p \in 1..Len(t) : BraceObjectAt(t, p)

\* The contents of the first fenced block of t: what stands between its
\* opening fence and the next closing ticks, without the whitespace around.
FirstFenceContents(t) ==
    LET p == CHOOSE p \in 1..Len(t) :
                 /\ FencedBlockAt(t, p)
                 /\ \A r \in 1..(p - 1) : ~FencedBlockAt(t, r)
        q == CHOOSE q \in (p + Len(FenceOpen))..Len(t) :
                 /\ StartsWithAt(t, q, Ticks)
                 /\ \A r \in (p + Len(FenceOpen))..(q - 1) : ~StartsWithAt(t, r, Ticks)
    IN Trim(Slice(t, p + Len(FenceOpen), q - 1))

\* The first thing the text holds is a fenced block with nothing but
\* whitespace in it: no fenced block and no {...} object starts before it.
EmptyFenceFirst(t) ==
    \E p \in 1..Len(t) :
        /\ StartsWithAt(t, p, FenceOpen)
        /\ StartsWithAt(t, SkipWs(t, p + Len(FenceOpen)), Ticks)
        /\ \A r \in 1..(p - 1) : ~FencedBlockAt(t, r) /\ ~BraceObjectAt(t, r)

(***************************************************************************)
(* Claims about extractJsonFromText, under SpecExtract.                    *)
(***************************************************************************)
\* C7: when the text contains a fenced JSON block (with contents), the
\* candidate that is parsed is the contents of that block, whatever precedes
\* or follows it.  The code takes the leftmost match of either alternative, so
\* a brace before the fence wins.
C7_FencedBlockIsCandidate ==
    (extracted.done /\ HasFencedBlock(text) /\ FirstFenceContents(text) # <<>>)
        => extracted.candidate = [some |-> TRUE, s |-> FirstFenceContents(text)]

C9_ValidJsonUnchanged ==
    (extracted.done /\ extracted.candidate.some /\ JSONParse(extracted.candidate.s).ok)
        => /\ extracted.out.ok
           /\ extracted.out.val = JSONParse(extracted.candidate.s).val

(***************************************************************************)
(* Claims about analyzeContentOnline and analyzePair, under SpecAnalyze.   *)
(***************************************************************************)
Analyzed(fn) == outcome.done /\ given.fn = fn

\* The object of the response reaches the parser whole.
Parsable == given.wrap \in {"bare", "fenced"}

\* The citation of a chunk, read off its shape.
CitedUri(sh) == IF sh.web THEN NameText(sh.uri) ELSE <<>>

CitedTitle(sh) ==
    IF sh.web /\ NameText(sh.title) # <<>> THEN NameText(sh.title) ELSE Untitled

\* The places of the chunks that are the first to cite their URI, in order.
FirstPlaces(chunks) ==
    LET First(i) == /\ CitedUri(chunks[i]) # <<>>
                    /\ \A j \in 1..(i - 1) : CitedUri(chunks[j]) # CitedUri(chunks[i])
    IN SelectSeq([i \in 1..Len(chunks) |-> i], First)

\* The last place that cites the URI chunk i cites.
LastPlace(chunks, i) ==
    CHOOSE j \in i..Len(chunks) :
        /\ CitedUri(chunks[j]) = CitedUri(chunks[i])
        /\ \A l \in (j + 1)..Len(chunks) : CitedUri(chunks[l]) # CitedUri(chunks[i])

DedupFirstTitle(chunks) ==
    LET at == FirstPlaces(chunks) IN
    [k \in 1..Len(at) |->
        [uri |-> CitedUri(chunks[at[k]]), title |-> CitedTitle(chunks[at[k]])]]

DedupLastTitle(chunks) ==
    LET at == FirstPlaces(chunks) IN
    [k \in 1..Len(at) |->
        [uri |-> CitedUri(chunks[at[k]]),
         title |-> CitedTitle(chunks[LastPlace(chunks, at[k])])]]

C6_SentencesNormalised ==
    (Analyzed("analyzeContentOnline") /\ Parsable /\ given.ms = "list"
         /\ given.sim \in NumberSimShapes)
        => /\ outcome.res.ok
           /\ outcome.res.val.matched_sentences
                  = [i \in 1..Len(given.elems) |->
                        [sentence |-> ElemExpected(given.elems[i])]]

\* C6 witness: the list of a bare string, a wrapped one and an object
\* without a sentence has been normalised.
C6_Witness ==
    /\ Analyzed("analyzeContentOnline")
    /\ Parsable
    /\ given.ms = "list"
    /\ given.elems = <<"plain", "wrapped", "other">>
    /\ outcome.res.ok
    /\ Len(outcome.res.val.matched_sentences) = 3
    /\ outcome.res.val.matched_sentences[3] = [sentence |-> CouldNotParseSentence]

\* C10: a parsed response whose similarity is not a number or whose
\* matched_sentences is not a list makes the call fail, with the error that
\* names the document or the pair.  analyzePair returns the fields unchecked.
C10_ShapeValidated ==
    (outcome.done /\ Parsable
         /\ (given.sim \notin NumberSimShapes \/ given.ms # "list"))
        => /\ ~outcome.res.ok
           /\ outcome.res.err = IF given.fn = "analyzePair"
                                THEN AnalyzePairFailed(FileA, FileB)
                                ELSE AnalyzeOnlineFailed(FileA)

(***************************************************************************)
(* Claims about a run of the service (Spec).                               *)
(***************************************************************************)
PairwiseRun == op = "checkPlagiarism" /\ ~isOnlineCheck

\* The place of a document in the documents of the run, from 0 as in the code.
IndexOf(name) == (CHOOSE p \in 1..Len(documents) : documents[p] = name) - 1

IsIndexPair(item) ==
    \E i, j \in 0..(Len(documents) - 1) :
        /\ i < j
        /\ item = <<documents[i + 1], documents[j + 1]>>

LexBefore(a, b) ==
    \/ IndexOf(a[1]) < IndexOf(b[1])
    \/ IndexOf(a[1]) = IndexOf(b[1]) /\ IndexOf(a[2]) < IndexOf(b[2])

\* C1: in pairwise mode with N >= 2 documents the work items are the
\* unordered pairs of distinct documents (i, j), 0 <= i < j < N, each once
\* and none other, in increasing lexicographic order of (i, j): there are
\* N(N-1)/2 of them, each is such a pair, and each comes before the next.
C1_PairsLexicographic ==
    (PairwiseRun /\ Len(documents) >= 2) =>
        /\ 2 * Len(workItems) = Len(documents) * (Len(documents) - 1)
        /\ \A k \in 1..Len(workItems) : IsIndexPair(workItems[k])
        /\ \A k \in 1..(Len(workItems) - 1) : LexBefore(workItems[k], workItems[k + 1])

\* Three documents give (0,1), (0,2), (1,2).
C1_Witness ==
    /\ PairwiseRun
    /\ Len(documents) = 3
    /\ workItems = << <<FileNames[1], FileNames[2]>>, <<FileNames[1], FileNames[3]>>,
                      <<FileNames[2], FileNames[3]>> >>

ListFulfilled == op = "checkPlagiarism" /\ returned.state = "fulfilled"

\* The result at place k is the one work item k settled with, and names the
\* files of work item k.
ResultOfItem(k) ==
    /\ returned.value[k] = analysisPromises[k].settled.val
    /\ returned.value[k].file1 = workItems[k][1]
    /\ isOnlineCheck \/ returned.value[k].file2 = workItems[k][2]

\* C2: when checkPlagiarism fulfils, the list it returns has one result per
\* work item, in the order of the work items, whatever the order the
\* comparisons completed in.
C2_ResultsInInputOrder ==
    ListFulfilled =>
        /\ Len(returned.value) = Len(workItems)
        /\ \A k \in 1..Len(workItems) : ResultOfItem(k)

\* The last work item completed first, the results differ, and the list is
\* still in the order of the work items.
C2_Witness ==
    /\ ListFulfilled
    /\ Len(workItems) >= 2
    /\ settleOrder[1] = Len(workItems)
    /\ returned.value[1] # returned.value[Len(workItems)]
    /\ \A k \in 1..Len(workItems) : ResultOfItem(k)

SomeItemRejected ==
    \E k \in 1..Len(analysisPromises) : analysisPromises[k].state = "rejected"

\* C3: once a work item of checkPlagiarism has failed, the returned promise
\* is rejected with the failure of a work item, and no list is returned; a
\* list is returned only when every work item succeeded, and is complete.
C3_FailFast ==
    (op = "checkPlagiarism") =>
        /\ SomeItemRejected =>
              /\ returned.state = "rejected"
              /\ \E k \in 1..Len(analysisPromises) :
                    /\ analysisPromises[k].state = "rejected"
                    /\ returned.reason = analysisPromises[k].settled.err
        /\ returned.state = "fulfilled" =>
              /\ Len(returned.value) = Len(workItems)
              /\ \A k \in 1..Len(analysisPromises) :
                    analysisPromises[k].state = "fulfilled"

\* One of three comparisons failed after another had succeeded: the call is
\* rejected with that failure, and the result that exists is not returned.
C3_Witness ==
    /\ op = "checkPlagiarism"
    /\ Len(workItems) = 3
    /\ returned.state = "rejected"
    /\ returned.value = <<>>
    /\ \E k \in 1..3 : analysisPromises[k].state = "fulfilled"
    /\ \E k \in 1..3 :
          /\ analysisPromises[k].state = "rejected"
          /\ returned.reason = analysisPromises[k].settled.err

\* C4: in pairwise mode with fewer than two documents checkPlagiarism
\* returns the empty list, and no provider call is made.
C4_FewerThanTwoNoCall ==
    (PairwiseRun /\ Len(documents) < 2) =>
        /\ returned = Fulfilled(<<>>)
        /\ initiated = <<>>
        /\ workItems = <<>>
        /\ analysisPromises = <<>>

\* A pairwise call with exactly one document.
C4_Witness ==
    /\ PairwiseRun
    /\ Len(documents) = 1
    /\ returned = Fulfilled(<<>>)
    /\ initiated = <<>>

\* The results the last call returned: the list of checkPlagiarism, or the
\* one result of checkPastedTextPlagiarism.
ReturnedResults ==
    IF returned.state # "fulfilled" THEN <<>>
    ELSE IF op = "checkPlagiarism" THEN returned.value
    ELSE <<returned.value>>

\* C11: every result returned by checkPlagiarism or checkPastedTextPlagiarism
\* whose similarity is a number has it in 0..100, whatever number the
\* provider answered.  Neither path checks or clamps the number.
C11_SimilarityInRange ==
    \A k \in 1..Len(ReturnedResults) :
        IsNumber(ReturnedResults[k].similarity)
            => ReturnedResults[k].similarity.v \in 0..100

\* The braces of t[p..q], opening minus closing.
BraceDepth(t, p, q) ==
    Cardinality({i \in p..q : t[i] = "{"}) - Cardinality({i \in p..q : t[i] = "}"})

\* Where the object that opens at p closes: the first place at which its
\* braces are balanced, 0 when there is none.
BalancedEnd(t, p) ==
    LET S == {q \in p..Len(t) : BraceDepth(t, p, q) = 0}
    IN IF t[p] # "{" \/ S = {} THEN 0 ELSE Least(S)

\* The first { of t opens a balanced object.
HasBalancedObject(t) ==
    \E p \in 1..Len(t) :
        /\ BalancedEnd(t, p) # 0
        /\ \A r \in 1..(p - 1) : t[r] # "{"

\* The first balanced {...} object of t.
FirstBalancedObject(t) ==
    LET p == Least({r \in 1..Len(t) : t[r] = "{"})
    IN Slice(t, p, BalancedEnd(t, p))

NoQuote(t) == \A i \in 1..Len(t) : t[i] # "\""

\* C18: for a text without a fenced JSON block (and without string quotes,
\* so that balance is a matter of braces alone) whose first { opens a
\* balanced {...} object, the candidate that is parsed is that object; what
\* follows its closing brace is not part of the candidate.  The code takes
\* the span from the first { to the last } of the text.
C18_FirstBalancedObject ==
    (extracted.done /\ ~HasFencedBlock(text) /\ NoQuote(text)
         /\ HasBalancedObject(text))
        => extracted.candidate = [some |-> TRUE, s |-> FirstBalancedObject(text)]

\* The failure kind of the taxonomy a response leads to, read off the step of
\* the function that throws: the provider call ("transport"), the search for
\* a candidate ("nonJson"), the parse ("malformed"), the reading or the
\* validation of the two fields ("shape"); "none" when the call returns,
\* "noText" for a response without text.
FailureKind(fn, resp) ==
    IF resp.throws THEN "transport"
    ELSE IF ~resp.hasText THEN "noText"
    ELSE IF fn = "analyzePair"
    THEN LET p == JSONParse(Trim(resp.text)) IN
         IF ~p.ok THEN "malformed" ELSE IF PropThrows(p.val) THEN "shape" ELSE "none"
    ELSE LET x == extractJsonFromText(resp.text) IN
         IF ~x.ok THEN (IF x.err = NonJsonResponse THEN "nonJson" ELSE "malformed")
         ELSE IF PropThrows(x.val) \/ ~IsNumber(GetProp(x.val, KeySimilarity))
                 \/ ~IsArray(GetProp(x.val, KeyMatchedSentences))
              THEN "shape" ELSE "none"

\* What fn settles with for the documents of the calls, given a response.
SettlesWith(fn, resp) ==
    IF fn = "analyzePair" THEN analyzePair(FileA, FileB, resp)
    ELSE analyzeContentOnline(FileA, resp)

\* One response of each failure kind.
KindProbes ==
    { ResponseOf(Shape("n7", "list", "throws", <<>>)),
      ResponseOf(Shape("n7", "list", "prose", <<>>)),
      ResponseOf(Shape("n7", "list", "cut", <<>>)),
      ResponseOf(Shape("string", "list", "bare", <<>>)),
      ResponseOf(Shape("n7", "list", "jsonNull", <<>>)) }

Names(msg, name) == \E i \in 1..Len(msg) : msg[i] = name

\* C13: the message of a failed call names the document (online) or both
\* documents of the pair (pairwise), and no failure of another kind on the
\* same documents has the same message.  Both functions catch every error
\* and throw one fixed message in its place.
C13_MessageTellsKind ==
    (outcome.done /\ ~outcome.res.ok) =>
        /\ Names(outcome.res.err, FileA)
        /\ given.fn = "analyzePair" => Names(outcome.res.err, FileB)
        /\ \A resp \in KindProbes :
              (FailureKind(given.fn, resp)
                   \notin {"none", FailureKind(given.fn, ResponseOf(given))})
                  => SettlesWith(given.fn, resp).err # outcome.res.err

\* C14: a call of checkPlagiarism in online mode with no document is
\* rejected with an input error, with no provider call; it does not return
\* an empty list.  The code returns [] for it.
C14_NoDocumentsIsError ==
    (op = "checkPlagiarism" /\ isOnlineCheck /\ documents = <<>>) =>
        /\ initiated = <<>>
        /\ returned.state = "rejected"
        /\ returned.reason # <<>>

OnlineFileRun == op = "checkPlagiarism" /\ isOnlineCheck

\* The extraction of the text of work item k has failed: its promise is
\* rejected and analyzeContentOnline was never called for it.
ExtractionFailed(k) ==
    analysisPromises[k].state = "rejected" /\ ~onlineCalls[k].called

ExtractionErrors(docName) ==
    { ExtractFailed(docName, ProviderError),
      ExtractFailed(docName, NoTextExtracted(docName)) }

FirstCall == IF isOnlineCheck THEN "extractTextFromDoc" ELSE "analyzePair"

RECURSIVE SumOfSimilarities(_)
SumOfSimilarities(rs) ==
    IF rs = <<>> THEN 0 ELSE Head(rs).similarity.v + SumOfSimilarities(Tail(rs))

\* C12: the average shown for a result set is 0 when the set is empty, and
\* otherwise the sum of the similarities divided by the number of results;
\* it is never a quotient by zero.
C12_AverageIsMean ==
    (rendered.screen = "results") =>
        LET a == rendered.averageSimilarity IN
        /\ ~IsNaN(a)
        /\ a.den # 0
        /\ results = <<>> => a.num = 0
        /\ a.num * Len(results) = SumOfSimilarities(results) * a.den

\* The similarities 10, 50, 90 are shown with the average 50; so is the
\* empty set with 0, in another state.
C12_Witness ==
    /\ rendered.screen = "results"
    /\ [k \in 1..Len(results) |-> results[k].similarity.v] = <<10, 50, 90>>
    /\ rendered.averageSimilarity.num = 50 * rendered.averageSimilarity.den

(***************************************************************************)
(* Claims about the App, under SpecApp.                                    *)
(***************************************************************************)
\* The last run of a handler has ended in its catch block, and nothing has
\* been started since.
RunHasFailed == run.stage = "idle" /\ run.took = "catch"

\* C17: after a run that failed (the file reading, checkPlagiarism or
\* checkPastedTextPlagiarism rejected) the error is set to the message of
\* the rejection, view is UPLOAD, results is empty and isLoading is false:
\* the App shows the upload form with the error and no result.
C17_StateAfterFailure ==
    RunHasFailed =>
        /\ error.set
        /\ error.message # <<>>
        /\ view = UPLOAD
        /\ results = <<>>
        /\ ~isLoading
        /\ rendered = [screen |-> "upload", error |-> error]

\* A run of checkPlagiarism has failed after one of its work items had
\* produced a result: the error is that of the service and no result is kept.
C17_Witness ==
    /\ RunHasFailed
    /\ op = "checkPlagiarism"
    /\ returned.state = "rejected"
    /\ \E k \in 1..Len(analysisPromises) : analysisPromises[k].state = "fulfilled"
    /\ error = ErrorOf(returned.reason)
    /\ results = <<>>
    /\ view = UPLOAD

\* C19: at most one handler is running at any time; isLoading is true
\* exactly while one is, so that every run ends with isLoading false; and
\* whenever view is RESULTS no error is set and the results are those the
\* service returned to the run started last.
C19_OneRunInFlight ==
    /\ inFlight \in {0, 1}
    /\ isLoading <=> inFlight = 1
    /\ inFlight = 1 <=> run.stage # "idle"
    /\ view = RESULTS =>
          /\ error = NoError
          /\ run.stage = "idle" /\ run.took = "try"
          /\ results = ReturnedResults
          /\ rendered.screen = "results" /\ rendered.results = results

\* The results of a run of two documents are shown, and no run is in flight.
C19_Witness ==
    /\ view = RESULTS
    /\ inFlight = 0
    /\ ~isLoading
    /\ op = "checkPlagiarism"
    /\ Len(results) >= 1
    /\ results = returned.value

=============================================================================
